---------------------------- MODULE Spec2Model ----------------------------
(***************************************************************************)
(* Model of the neologism pipeline's rule-based parts:                     *)
(*   - neo_classifier.py      : process_genre, load_dictionaries, main     *)
(*   - filter_dict_creator.py : extract_entries_from_lines and helpers     *)
(*   - gutendicter.py, preprocessing.py : chunk_text                       *)
(* A Python string is modelled as a sequence of characters; a character is *)
(* a one-element name such as "a", "(" or " ".  "U0130" names the code     *)
(* point U+0130, "U0307" the code point U+0307 and "LF" the newline.       *)
(***************************************************************************)
EXTENDS Integers, Sequences, FiniteSets, TLC

VARIABLES
    \* ---- neo_classifier.py ----
    chamber_entries,      \* set(json.load(CHAMBER_DICT_PATH))
    corpus_dict,          \* keys of json.load(CORPUS_DICT_PATH)
    combined_dict,        \* the set load_dictionaries returns
    filtered_data,        \* filtered_data["aggregated_tokens"], in iteration order
    idx,                  \* position of the for loop of process_genre
    neo_combinations,     \* dict token -> data
    novel_neologisms,     \* dict token -> data
    neo_combinations_output,   \* the structure dumped to neo_combinations.json
    novel_neologisms_output,   \* the structure dumped to novel_neologisms.json
    cpc,                  \* "loop" | "done" | "KeyError" (raised out of the loop)
    \* ---- filter_dict_creator.py ----
    lines,                \* the input lines handled so far (lines[0..i])
    entries,
    previous_line_is_entry,
    previous_entry,
    incomplete_word,
    bracket_stack,
    first_letters,
    printed,              \* what the loop printed for each line, and its candidate
    output,               \* what save_entries_to_json dumped
    epc,                  \* "loop" | "done" | "raised" (an exception left the loop)
    \* ---- extract_entries called again in the same process ----
    call_no,              \* 1 in the first call, 2 in the second
    given,                \* the lines the first call was given
    first_output,         \* what the first call dumped
    \* ---- the two worker processes of main() of neo_classifier.py ----
    w_dict,               \* genre -> the worker's copy of combined_dict
    w_data,               \* genre -> filtered_data["aggregated_tokens"] of its file
    w_idx,                \* genre -> position of the worker's for loop
    w_neo,                \* genre -> the worker's neo_combinations
    w_novel,              \* genre -> the worker's novel_neologisms
    w_pc,                 \* genre -> "loop" | "dumping" | "done"
    files,                \* output directory -> the two files in it
    \* ---- chunk_text of gutendicter.py and preprocessing.py ----
    text,
    chunk_size,
    paragraphs,
    para_no,              \* position of the for loop over paragraphs
    chunks,               \* the list being built, and the list returned
    current_chunk,
    kpc,                  \* "start" | "loop" | "done"
    \* ---- gutendicter.py: main, process_record, checkpoints ----
    filtered_records,     \* what filter_metadata returned, the same in every run
    batch_size,
    checkpoint_frequency,
    processed_records,    \* the module-level set
    master_counter,       \* the module-level Counter: token -> count
    checkpoint_file,      \* what CHECKPOINT_FILE holds
    records_to_process,
    batch_start,          \* i of the for loop over batches, 1-based
    tasks,                \* the process_record tasks of the batch
    finished,             \* the tasks as_completed has still to yield, in order
    completed_count,
    merges,               \* record id -> how often its counts went into master_counter
    resumes,              \* how often the script was killed and started again
    mpc,                  \* "start" | "next_batch" | "await" | "final" | "done"
    \* ---- neo_validator.py: NeologismValidator ----
    dict_files,           \* what the four files of DICT_FILES hold
    current_dict_name,
    current_dict,         \* the name of the file self.current_dict was read from
    current_keys,
    current_index,
    total_count,
    validated_true,       \* word -> decision record
    validated_false,
    progress_file,        \* what progress.json holds
    result_files,         \* the words of the four files save_results writes
    shown                 \* what the window says of the last event

clsVars == <<chamber_entries, corpus_dict, combined_dict, filtered_data, idx,
             neo_combinations, novel_neologisms, neo_combinations_output,
             novel_neologisms_output, cpc>>
extVars == <<lines, entries, previous_line_is_entry, previous_entry,
             incomplete_word, bracket_stack, first_letters, printed, output, epc>>
repVars == <<call_no, given, first_output>>
parVars == <<w_dict, w_data, w_idx, w_neo, w_novel, w_pc, files>>
chunkVars == <<text, chunk_size, paragraphs, para_no, chunks, current_chunk, kpc>>
corpVars == <<filtered_records, batch_size, checkpoint_frequency, processed_records,
              master_counter, checkpoint_file, records_to_process, batch_start,
              tasks, finished, completed_count, merges, resumes, mpc>>
valVars == <<dict_files, current_dict_name, current_dict, current_keys, current_index,
             total_count, validated_true, validated_false, progress_file,
             result_files, shown>>
vars == <<clsVars, extVars, repVars, parVars, chunkVars, corpVars, valVars>>
\* what a step of one program leaves alone
nonCls == <<extVars, repVars, parVars, chunkVars, corpVars, valVars>>
nonExt == <<clsVars, repVars, parVars, chunkVars, corpVars, valVars>>
nonRep == <<clsVars, parVars, chunkVars, corpVars, valVars>>
nonPar == <<clsVars, extVars, repVars, chunkVars, corpVars, valVars>>
nonChunk == <<clsVars, extVars, repVars, parVars, corpVars, valVars>>
nonCorp == <<clsVars, extVars, repVars, parVars, chunkVars, valVars>>
nonVal == <<clsVars, extVars, repVars, parVars, chunkVars, corpVars>>

---------------------------------------------------------------------------
(* Python strings                                                          *)

Uppers == <<"A","B","C","D","E","F","G","H","I","J","K","L","M",
            "N","O","P","Q","R","S","T","U","V","W","X","Y","Z">>
Lowers == <<"a","b","c","d","e","f","g","h","i","j","k","l","m",
            "n","o","p","q","r","s","t","u","v","w","x","y","z">>

Range(s) == {s[k] : k \in DOMAIN s}
AsciiLetters == Range(Uppers) \cup Range(Lowers)
IndexIn(c, s) == CHOOSE k \in DOMAIN s : s[k] = c

\* str.lower() of a one-character string: the ASCII capitals map to their
\* small letters, U+0130 maps to the two code points "i" U+0307, and every
\* other character of the model maps to itself.
LowerChar(c) ==
    IF c \in Range(Uppers) THEN <<Lowers[IndexIn(c, Uppers)]>>
    ELSE IF c = "U0130" THEN <<"i", "U0307">>
    ELSE <<c>>

RECURSIVE Lower(_)
Lower(s) == IF s = <<>> THEN <<>> ELSE LowerChar(Head(s)) \o Lower(Tail(s))

\* ord() of the characters the model uses
Ord(c) ==
    IF c \in Range(Uppers) THEN 64 + IndexIn(c, Uppers)
    ELSE IF c \in Range(Lowers) THEN 96 + IndexIn(c, Lowers)
    ELSE CASE c = " " -> 32
           [] c = "'" -> 39
           [] c = "(" -> 40
           [] c = ")" -> 41
           [] c = "," -> 44
           [] c = "-" -> 45
           [] c = "[" -> 91
           [] c = "]" -> 93
           [] c = "U0130" -> 304
           [] c = "U0307" -> 775

Abs(n) == IF n < 0 THEN -n ELSE n

\* a < b for Python strings: code point order, a proper prefix first
StrLess(a, b) ==
    \E k \in 1..(Len(b)) :
        /\ k <= Len(a) + 1
        /\ \A j \in 1..(k - 1) : a[j] = b[j]
        /\ (k = Len(a) + 1 \/ Ord(a[k]) < Ord(b[k]))

\* sorted(S) of a set of strings
RECURSIVE Sorted(_)
Sorted(S) ==
    IF S = {} THEN <<>>
    ELSE LET m == CHOOSE x \in S : \A y \in S \ {x} : StrLess(x, y)
         IN <<m>> \o Sorted(S \ {m})

\* d[k] = v of a Python dict
DictPut(d, k, v) == [x \in (DOMAIN d) \cup {k} |-> IF x = k THEN v ELSE d[x]]
EmptyDict == [x \in {} |-> 0]

---------------------------------------------------------------------------
(* neo_classifier.py                                                       *)

\* the token record the filter step writes for a token
Data(lemma, full_form, freq) ==
    [lemma |-> lemma, pos |-> "NOUN", full_form |-> full_form, frequency |-> freq]

\* bounds of the classifier's inputs
MaxTokens == 2

TokenForms == { <<>>, <<"a">>, <<"a","b">>, <<"A","b">>, <<"b","a">> }
LemmaForms == { <<"a">>, <<"a","b">>, <<"B","a">>, <<"b","b">>, <<"U0130">> }
ChamberWords == { <<"A","b">>, <<"A">> }
CorpusWords == { <<"b","a">> }

Items == { <<t, Data(l, t, 1)>> : t \in TokenForms, l \in LemmaForms }

\* json objects have unique keys: the mappings of at most MaxTokens tokens,
\* in the order the file lists them
TokenMappings ==
    UNION { { m \in [1..n -> Items] :
                \A p, q \in 1..n : p # q => m[p][1] # m[q][1] } : n \in 0..MaxTokens }

load_dictionaries(chamber, corpus) ==
    {Lower(word) : word \in chamber} \cup {Lower(word) : word \in corpus}

\* as Bucket, with the lemma looked up as written instead of lowercased
BucketRawLemma(token, data, dict) ==
    IF Len(token) <= 1 THEN "skip"
    ELSE IF Len(Lower(data.lemma)) <= 1 THEN "skip"
    ELSE IF Lower(token) \in dict THEN "known"
    ELSE IF data.lemma \in dict THEN "neo_combination"
    ELSE "novel_neologism"

\* as Bucket, with the token looked up as written instead of lowercased
BucketRawToken(token, data, dict) ==
    IF Len(token) <= 1 THEN "skip"
    ELSE IF Len(Lower(data.lemma)) <= 1 THEN "skip"
    ELSE IF token \in dict THEN "known"
    ELSE IF Lower(data.lemma) \in dict THEN "neo_combination"
    ELSE "novel_neologism"

\* as Bucket, reading the lemma with data.get("lemma", "")
BucketGetLemma(token, data, dict) ==
    IF Len(token) <= 1 THEN "skip"
    ELSE LET token_lower == Lower(token)
             lemma_lower == IF "lemma" \in DOMAIN data THEN Lower(data.lemma) ELSE <<>>
         IN IF Len(lemma_lower) <= 1 THEN "skip"
            ELSE IF token_lower \in dict THEN "known"
            ELSE IF lemma_lower \in dict THEN "neo_combination"
            ELSE "novel_neologism"

\* the body of the for loop of process_genre: which way a token goes;
\* data["lemma"] raises KeyError when the record has no lemma
Bucket(token, data, dict) ==
    IF Len(token) <= 1 THEN "skip"
    ELSE IF "lemma" \notin DOMAIN data THEN "KeyError"
    ELSE LET token_lower == Lower(token)
             lemma_lower == Lower(data.lemma)
         IN IF Len(lemma_lower) <= 1 THEN "skip"
            ELSE IF token_lower \in dict THEN "known"
            ELSE IF lemma_lower \in dict THEN "neo_combination"
            ELSE "novel_neologism"

\* as ClassifyStep, storing the record under the lowercase token
ClassifyStepLowerKey(acc, token, data, dict) ==
    LET b == Bucket(token, data, dict)
    IN [neo |-> IF b = "neo_combination" THEN DictPut(acc.neo, Lower(token), data)
                ELSE acc.neo,
        novel |-> IF b = "novel_neologism" THEN DictPut(acc.novel, Lower(token), data)
                  ELSE acc.novel]

\* what one pass of the for loop of process_genre does to the two buckets
ClassifyStep(acc, token, data, dict) ==
    LET b == Bucket(token, data, dict)
    IN [neo |-> IF b = "neo_combination" THEN DictPut(acc.neo, token, data)
                ELSE acc.neo,
        novel |-> IF b = "novel_neologism" THEN DictPut(acc.novel, token, data)
                  ELSE acc.novel]

\* an output file that has not been written (no dumped count is negative)
Unwritten == [aggregated_tokens |-> EmptyDict, total_tokens |-> -1, unique_tokens |-> -1]

\* as GenreOutput, counting the tokens of the whole input as total_tokens
GenreOutputOfInput(bucket) ==
    [aggregated_tokens |-> bucket,
     total_tokens |-> Len(filtered_data),
     unique_tokens |-> Cardinality(DOMAIN bucket)]

\* neo_combinations_output / novel_neologisms_output of process_genre
GenreOutput(bucket) ==
    [aggregated_tokens |-> bucket,
     total_tokens |-> Cardinality(DOMAIN bucket),
     unique_tokens |-> Cardinality(DOMAIN bucket)]

ClsInit ==
    /\ chamber_entries \in SUBSET ChamberWords
    /\ corpus_dict \in SUBSET CorpusWords
    /\ combined_dict = load_dictionaries(chamber_entries, corpus_dict)
    /\ filtered_data \in TokenMappings
    /\ idx = 1
    /\ neo_combinations = EmptyDict
    /\ novel_neologisms = EmptyDict
    /\ neo_combinations_output = Unwritten
    /\ novel_neologisms_output = Unwritten
    /\ cpc = "loop"

ClassifyToken ==
    /\ cpc = "loop"
    /\ idx <= Len(filtered_data)
    /\ LET token == filtered_data[idx][1]
           data == filtered_data[idx][2]
           b == Bucket(token, data, combined_dict)
           r == ClassifyStep([neo |-> neo_combinations, novel |-> novel_neologisms],
                             token, data, combined_dict)
       IN /\ neo_combinations' = r.neo
          /\ novel_neologisms' = r.novel
          /\ idx' = IF b = "KeyError" THEN idx ELSE idx + 1
          /\ cpc' = IF b = "KeyError" THEN "KeyError" ELSE cpc
    /\ UNCHANGED <<chamber_entries, corpus_dict, combined_dict, filtered_data,
                   neo_combinations_output, novel_neologisms_output>>

\* the loop is over: the two output structures are built and dumped
ClassifyDone ==
    /\ cpc = "loop"
    /\ idx > Len(filtered_data)
    /\ neo_combinations_output' = GenreOutput(neo_combinations)
    /\ novel_neologisms_output' = GenreOutput(novel_neologisms)
    /\ cpc' = "done"
    /\ UNCHANGED <<chamber_entries, corpus_dict, combined_dict, filtered_data, idx,
                   neo_combinations, novel_neologisms>>

ClsIdle ==
    /\ chamber_entries = {}
    /\ corpus_dict = {}
    /\ combined_dict = {}
    /\ filtered_data = <<>>
    /\ idx = 1
    /\ neo_combinations = EmptyDict
    /\ novel_neologisms = EmptyDict
    /\ neo_combinations_output = Unwritten
    /\ novel_neologisms_output = Unwritten
    /\ cpc = "done"

ExtIdle ==
    /\ lines = <<>>
    /\ entries = <<>>
    /\ previous_line_is_entry = FALSE
    /\ previous_entry = <<>>
    /\ incomplete_word = <<>>
    /\ bracket_stack = <<>>
    /\ first_letters = {}
    /\ printed = <<>>
    /\ output = <<>>
    /\ epc = "done"

\* ---- gutendicter.py: the corpus builder ----
\* a metadata record is a dict; "gd_path" stands for its "gd-path" key
MaxRecords == 3
MaxBatchSize == 2
MaxFrequency == 2
MaxResumes == 1
Tokens == {"aa", "bb"}
RecA == [id |-> "a", gd_path |-> "a.txt"]
RecB == [id |-> "b", gd_path |-> "b.txt"]
RecNoId == [gd_path |-> "c.txt"]
RecNoPath == [id |-> "d"]
Records == {RecA, RecB, RecNoId, RecNoPath}

\* record.get("gd-path"): "" stands for None, both are falsy
GdPath(record) == IF "gd_path" \in DOMAIN record THEN record.gd_path ELSE ""
\* record.get("id", gd_path)
RecordId(record) == IF "id" \in DOMAIN record THEN record.id ELSE GdPath(record)
RecordIds == {RecordId(r) : r \in Records}

\* tokenize_with_regex(retrieve_text(gd_path)): the Counter of the text of
\* the file, a token that does not occur counting 0
TextCounter(gd_path) ==
    IF gd_path = "a.txt" THEN [t \in Tokens |-> IF t = "aa" THEN 1 ELSE 0]
    ELSE IF gd_path = "b.txt" THEN [t \in Tokens |-> IF t = "bb" THEN 2 ELSE 0]
    ELSE [t \in Tokens |-> 1]
EmptyCounter == [t \in Tokens |-> 0]
\* Counter.update
CounterUpdate(counter, other) == [t \in Tokens |-> counter[t] + other[t]]

NoCheckpoint == [exists |-> FALSE, processed_records |-> {},
                 master_counter |-> EmptyCounter, merges |-> [r \in RecordIds |-> 0]]
\* what save_checkpoint pickles
Pickled(records, counter, merged) ==
    [exists |-> TRUE, processed_records |-> records,
     master_counter |-> counter, merges |-> merged]

CorpInit ==
    /\ filtered_records \in UNION {[1..n -> Records] : n \in 0..MaxRecords}
    /\ batch_size \in 1..MaxBatchSize
    /\ checkpoint_frequency \in 1..MaxFrequency
    /\ processed_records = {}
    /\ master_counter = EmptyCounter
    /\ checkpoint_file = NoCheckpoint
    /\ records_to_process = <<>>
    /\ batch_start = 1
    /\ tasks = <<>>
    /\ finished = <<>>
    /\ completed_count = 0
    /\ merges = [r \in RecordIds |-> 0]
    /\ resumes = 0
    /\ mpc = "start"

\* main() up to the loop over batches: load_checkpoint, the records left
MainStart ==
    /\ mpc = "start"
    /\ LET loaded == IF checkpoint_file.exists THEN checkpoint_file.processed_records
                     ELSE processed_records
           todo == SelectSeq(filtered_records, LAMBDA r : RecordId(r) \notin loaded)
       IN /\ processed_records' = loaded
          /\ master_counter' = IF checkpoint_file.exists THEN checkpoint_file.master_counter
                               ELSE master_counter
          /\ merges' = IF checkpoint_file.exists THEN checkpoint_file.merges ELSE merges
          /\ records_to_process' = todo
          /\ mpc' = IF todo = <<>> THEN "done" ELSE "next_batch"
    /\ batch_start' = 1
    /\ UNCHANGED <<filtered_records, batch_size, checkpoint_frequency, checkpoint_file,
                   tasks, finished, completed_count, resumes>>

\* the first step of process_record, up to its first await: a record
\* without path or with a processed id returns None at once
FirstStep(record) ==
    IF GdPath(record) = "" \/ RecordId(record) \in processed_records
    THEN [record |-> record, at |-> "returned", ok |-> FALSE, counter |-> EmptyCounter]
    ELSE [record |-> record, at |-> "retrieving", ok |-> FALSE, counter |-> EmptyCounter]

\* a batch starts: its tasks are created and, when main() first awaits,
\* each runs its first step in turn before any thread can report back
StartBatch ==
    /\ mpc = "next_batch"
    /\ LET last == IF batch_start + batch_size - 1 < Len(records_to_process)
                   THEN batch_start + batch_size - 1 ELSE Len(records_to_process)
           batch == SubSeq(records_to_process, batch_start, last)
           started == [k \in DOMAIN batch |-> FirstStep(batch[k])]
       IN /\ tasks' = started
          /\ finished' = SelectSeq([k \in DOMAIN batch |-> k],
                                   LAMBDA k : started[k].at = "returned")
    /\ completed_count' = 0
    /\ mpc' = "await"
    /\ UNCHANGED <<filtered_records, batch_size, checkpoint_frequency, processed_records,
                   master_counter, checkpoint_file, records_to_process, batch_start,
                   merges, resumes>>

\* the thread of retrieve_text reports back
TaskRetrieved(k) ==
    /\ mpc = "await"
    /\ k \in DOMAIN tasks
    /\ tasks[k].at = "retrieving"
    /\ tasks' = [tasks EXCEPT ![k].at = "tokenizing"]
    /\ UNCHANGED <<filtered_records, batch_size, checkpoint_frequency, processed_records,
                   master_counter, checkpoint_file, records_to_process, batch_start,
                   finished, completed_count, merges, resumes, mpc>>

\* retrieve_text raises: the except clause returns None
TaskFails(k) ==
    /\ mpc = "await"
    /\ k \in DOMAIN tasks
    /\ tasks[k].at = "retrieving"
    /\ tasks' = [tasks EXCEPT ![k].at = "returned"]
    /\ finished' = Append(finished, k)
    /\ UNCHANGED <<filtered_records, batch_size, checkpoint_frequency, processed_records,
                   master_counter, checkpoint_file, records_to_process, batch_start,
                   completed_count, merges, resumes, mpc>>

\* the thread of tokenize_with_regex reports back: the id is added to
\* processed_records and the task returns the counter
TaskTokenized(k) ==
    /\ mpc = "await"
    /\ k \in DOMAIN tasks
    /\ tasks[k].at = "tokenizing"
    /\ processed_records' = processed_records \cup {RecordId(tasks[k].record)}
    /\ tasks' = [tasks EXCEPT ![k].at = "returned", ![k].ok = TRUE,
                              ![k].counter = TextCounter(GdPath(tasks[k].record))]
    /\ finished' = Append(finished, k)
    /\ UNCHANGED <<filtered_records, batch_size, checkpoint_frequency, master_counter,
                   checkpoint_file, records_to_process, batch_start, completed_count,
                   merges, resumes, mpc>>

\* main() takes the next finished task from as_completed, merges its
\* counter and saves a checkpoint every checkpoint_frequency tasks
MainConsume ==
    /\ mpc = "await"
    /\ finished # <<>>
    /\ LET task == tasks[Head(finished)]
           merged == task.ok /\ task.counter # EmptyCounter
           id == RecordId(task.record)
       IN /\ master_counter' = IF merged THEN CounterUpdate(master_counter, task.counter)
                               ELSE master_counter
          /\ merges' = IF merged THEN [merges EXCEPT ![id] = @ + 1] ELSE merges
    /\ finished' = Tail(finished)
    /\ completed_count' = completed_count + 1
    /\ checkpoint_file' = IF completed_count' % checkpoint_frequency = 0
                          THEN Pickled(processed_records, master_counter', merges')
                          ELSE checkpoint_file
    /\ UNCHANGED <<filtered_records, batch_size, checkpoint_frequency, processed_records,
                   records_to_process, batch_start, tasks, resumes, mpc>>

\* all tasks of the batch were taken: checkpoint, next batch
BatchEnd ==
    /\ mpc = "await"
    /\ completed_count = Len(tasks)
    /\ checkpoint_file' = Pickled(processed_records, master_counter, merges)
    /\ batch_start' = batch_start + batch_size
    /\ mpc' = IF batch_start' > Len(records_to_process) THEN "final" ELSE "next_batch"
    /\ UNCHANGED <<filtered_records, batch_size, checkpoint_frequency, processed_records,
                   master_counter, records_to_process, tasks, finished, completed_count,
                   merges, resumes>>

\* the final results are written and main() returns
SaveFinal ==
    /\ mpc = "final"
    /\ mpc' = "done"
    /\ UNCHANGED <<filtered_records, batch_size, checkpoint_frequency, processed_records,
                   master_counter, checkpoint_file, records_to_process, batch_start,
                   tasks, finished, completed_count, merges, resumes>>

\* the script is killed, or has ended, and is started again: the module
\* is loaded afresh and only the checkpoint file is left of the earlier run
StartAgain ==
    /\ mpc # "start"
    /\ resumes < MaxResumes
    /\ resumes' = resumes + 1
    /\ processed_records' = {}
    /\ master_counter' = EmptyCounter
    /\ merges' = [r \in RecordIds |-> 0]
    /\ records_to_process' = <<>>
    /\ batch_start' = 1
    /\ tasks' = <<>>
    /\ finished' = <<>>
    /\ completed_count' = 0
    /\ mpc' = "start"
    /\ UNCHANGED <<filtered_records, batch_size, checkpoint_frequency, checkpoint_file>>

\* the corpus builder is not run
CorpIdle ==
    /\ filtered_records = <<>>
    /\ batch_size = 1
    /\ checkpoint_frequency = 1
    /\ processed_records = {}
    /\ master_counter = EmptyCounter
    /\ checkpoint_file = NoCheckpoint
    /\ records_to_process = <<>>
    /\ batch_start = 1
    /\ tasks = <<>>
    /\ finished = <<>>
    /\ completed_count = 0
    /\ merges = [r \in RecordIds |-> 0]
    /\ resumes = 0
    /\ mpc = "done"

CorpNext ==
    \/ MainStart /\ UNCHANGED nonCorp
    \/ StartBatch /\ UNCHANGED nonCorp
    \/ \E k \in 1..MaxBatchSize : TaskRetrieved(k) /\ UNCHANGED nonCorp
    \/ \E k \in 1..MaxBatchSize : TaskFails(k) /\ UNCHANGED nonCorp
    \/ \E k \in 1..MaxBatchSize : TaskTokenized(k) /\ UNCHANGED nonCorp
    \/ MainConsume /\ UNCHANGED nonCorp
    \/ BatchEnd /\ UNCHANGED nonCorp
    \/ SaveFinal /\ UNCHANGED nonCorp
    \/ StartAgain /\ UNCHANGED nonCorp

\* ---- neo_validator.py: the review tool ----
DictNames == {"romance_neo_combinations", "romance_novel_neologisms",
              "scifi_neo_combinations", "scifi_novel_neologisms"}
\* "romance" in dict_name
HasRomance(dict_name) ==
    dict_name \in {"romance_neo_combinations", "romance_novel_neologisms"}
\* the keys of "aggregated_tokens" of a candidate file, in file order; a
\* file that is not well formed has no "aggregated_tokens"
KeyLists == { <<>>, <<"w1">>, <<"w2", "w1">> }
FileContents ==
    {[well_formed |-> TRUE, keys |-> ks] : ks \in KeyLists}
        \cup {[well_formed |-> FALSE, keys |-> <<>>]}
NoProgress ==
    [exists |-> FALSE, validated_true |-> EmptyDict, validated_false |-> EmptyDict,
     last_dict |-> "", last_index |-> 0]
NoResults ==
    [romance_true |-> {"unwritten"}, romance_false |-> {"unwritten"},
     scifi_true |-> {"unwritten"}, scifi_false |-> {"unwritten"}]

\* load_dictionary: <<current_dict, current_keys, total_count,
\* current_index, what is shown>> after the call
load_dictionary(dict_name, was) ==
    IF dict_files[dict_name].well_formed
    THEN <<dict_name, dict_files[dict_name].keys, Len(dict_files[dict_name].keys), 0,
           "loaded">>
    ELSE <<dict_name, was[2], was[3], was[4], "error">>

\* __init__: the fields, load_progress, then load_dictionary of the
\* dictionary selected first
ValStart ==
    /\ current_dict_name = "romance_neo_combinations"
    /\ validated_true = progress_file.validated_true
    /\ validated_false = progress_file.validated_false
    /\ LET got == load_dictionary("romance_neo_combinations", <<"None", <<>>, 0, 0>>)
       IN /\ current_dict = got[1]
          /\ current_keys = got[2]
          /\ total_count = got[3]
          /\ current_index = got[4]
          /\ shown = got[5]

\* the candidate files: the first dictionary is any of FileContents, the
\* others are an empty one, one that is not well formed, and one that
\* shares a word with the first
CandidateFiles ==
    {[n \in DictNames |->
        IF n = "romance_neo_combinations" THEN first
        ELSE IF n = "romance_novel_neologisms" THEN [well_formed |-> TRUE, keys |-> <<>>]
        ELSE IF n = "scifi_neo_combinations" THEN [well_formed |-> FALSE, keys |-> <<>>]
        ELSE [well_formed |-> TRUE, keys |-> <<"w1">>]] : first \in FileContents}

ValInit ==
    /\ dict_files \in CandidateFiles
    /\ progress_file = NoProgress
    /\ result_files = NoResults
    /\ ValStart

\* a dictionary is chosen in the combobox
SelectDictionary(dict_name) ==
    /\ current_dict_name' = dict_name
    /\ LET got == load_dictionary(dict_name,
                     <<current_dict, current_keys, total_count, current_index>>)
       IN /\ current_dict' = got[1]
          /\ current_keys' = got[2]
          /\ total_count' = got[3]
          /\ current_index' = got[4]
          /\ shown' = got[5]
    /\ UNCHANGED <<dict_files, validated_true, validated_false, progress_file,
                   result_files>>

\* self.current_dict["aggregated_tokens"][word] can be read
HasWordData(word) ==
    /\ current_dict \in DictNames
    /\ dict_files[current_dict].well_formed
    /\ \E k \in DOMAIN dict_files[current_dict].keys : dict_files[current_dict].keys[k] = word

\* as next_word, stepping on from the last word too
next_word_unbounded ==
    IF current_keys = <<>> THEN <<current_index, "nothing">>
    ELSE <<current_index + 1, "word">>

\* next_word: <<current_index, what is shown>> after the call
next_word ==
    IF current_keys = <<>> THEN <<current_index, "nothing">>
    ELSE IF current_index < Len(current_keys) - 1
         THEN <<current_index + 1,
                IF HasWordData(current_keys[current_index + 2]) THEN "word" ELSE "KeyError">>
         ELSE <<current_index, "end_of_dictionary">>

\* the two dictionaries after a decision: <<the one of the decision, the
\* other one>>
Decided(mine, other, word, decision_data) ==
    <<DictPut(mine, word, decision_data), other>>

\* the buttons True Neologism and Not a Neologism; the timestamp of the
\* decision record is left out
MakeDecision(is_neologism) ==
    IF current_keys = <<>> \/ current_index >= Len(current_keys)
    THEN /\ shown' = "nothing"
         /\ UNCHANGED <<dict_files, current_dict_name, current_dict, current_keys,
                        current_index, total_count, validated_true, validated_false,
                        progress_file, result_files>>
    ELSE LET word == current_keys[current_index + 1]
         IN IF ~HasWordData(word)
            THEN /\ shown' = "KeyError"
                 /\ UNCHANGED <<dict_files, current_dict_name, current_dict, current_keys,
                                current_index, total_count, validated_true,
                                validated_false, progress_file, result_files>>
            ELSE LET decision_data == [word |-> word, data |-> <<current_dict, word>>,
                                       dictionary |-> current_dict_name]
                     both == IF is_neologism
                             THEN Decided(validated_true, validated_false, word, decision_data)
                             ELSE Decided(validated_false, validated_true, word, decision_data)
                 IN /\ validated_true' = IF is_neologism THEN both[1] ELSE both[2]
                    /\ validated_false' = IF is_neologism THEN both[2] ELSE both[1]
                    /\ current_index' = next_word[1]
                    /\ shown' = next_word[2]
                    /\ UNCHANGED <<dict_files, current_dict_name, current_dict,
                                   current_keys, total_count, progress_file, result_files>>

\* the button Skip
Skip ==
    /\ current_index' = next_word[1]
    /\ shown' = next_word[2]
    /\ UNCHANGED <<dict_files, current_dict_name, current_dict, current_keys, total_count,
                   validated_true, validated_false, progress_file, result_files>>

\* the button Previous
PreviousWord ==
    /\ IF current_keys = <<>>
       THEN current_index' = current_index /\ shown' = "nothing"
       ELSE IF current_index > 0
       THEN /\ current_index' = current_index - 1
            /\ shown' = IF HasWordData(current_keys[current_index]) THEN "word"
                        ELSE "KeyError"
       ELSE current_index' = current_index /\ shown' = "first_word"
    /\ UNCHANGED <<dict_files, current_dict_name, current_dict, current_keys, total_count,
                   validated_true, validated_false, progress_file, result_files>>

\* the words of a decision dictionary that save_results files under a genre
WordsOfGenre(validated, romance) ==
    {w \in DOMAIN validated : HasRomance(validated[w].dictionary) = romance}

\* the button Save Progress: save_progress, then the four result files
SaveResults ==
    /\ progress_file' = [exists |-> TRUE, validated_true |-> validated_true,
                         validated_false |-> validated_false,
                         last_dict |-> current_dict_name, last_index |-> current_index]
    /\ result_files' = [romance_true |-> WordsOfGenre(validated_true, TRUE),
                        romance_false |-> WordsOfGenre(validated_false, TRUE),
                        scifi_true |-> WordsOfGenre(validated_true, FALSE),
                        scifi_false |-> WordsOfGenre(validated_false, FALSE)]
    /\ shown' = "saved"
    /\ UNCHANGED <<dict_files, current_dict_name, current_dict, current_keys,
                   current_index, total_count, validated_true, validated_false>>

\* the window is closed and the tool started again
Reopen ==
    /\ current_dict_name' = "romance_neo_combinations"
    /\ validated_true' = progress_file.validated_true
    /\ validated_false' = progress_file.validated_false
    /\ LET got == load_dictionary("romance_neo_combinations", <<"None", <<>>, 0, 0>>)
       IN /\ current_dict' = got[1]
          /\ current_keys' = got[2]
          /\ total_count' = got[3]
          /\ current_index' = got[4]
          /\ shown' = got[5]
    /\ UNCHANGED <<dict_files, progress_file, result_files>>

\* the review tool is not run
ValIdle ==
    /\ dict_files = [n \in DictNames |-> [well_formed |-> TRUE, keys |-> <<>>]]
    /\ current_dict_name = "romance_neo_combinations"
    /\ current_dict = "None"
    /\ current_keys = <<>>
    /\ current_index = 0
    /\ total_count = 0
    /\ validated_true = EmptyDict
    /\ validated_false = EmptyDict
    /\ progress_file = NoProgress
    /\ result_files = NoResults
    /\ shown = "nothing"

ValNext ==
    \/ \E dict_name \in DictNames : SelectDictionary(dict_name) /\ UNCHANGED nonVal
    \/ \E is_neologism \in BOOLEAN : MakeDecision(is_neologism) /\ UNCHANGED nonVal
    \/ Skip /\ UNCHANGED nonVal
    \/ PreviousWord /\ UNCHANGED nonVal
    \/ SaveResults /\ UNCHANGED nonVal
    \/ Reopen /\ UNCHANGED nonVal

\* ---- chunk_text ----
\* "LF" names the newline character
ParagraphBreak == <<"LF", "LF">>
MaxTextLen == 5
MaxChunkSize == 4
Texts == UNION { [1..n -> {"x", "LF"}] : n \in 0..MaxTextLen }

\* str.split(sep): the pieces between the occurrences of sep, found from
\* the left and not overlapping
RECURSIVE Split(_, _)
Split(s, sep) ==
    LET at == {k \in 1..(Len(s) - Len(sep) + 1) : SubSeq(s, k, k + Len(sep) - 1) = sep}
    IN IF at = {} THEN <<s>>
       ELSE LET k == CHOOSE x \in at : \A y \in at : x <= y
            IN <<SubSeq(s, 1, k - 1)>> \o Split(SubSeq(s, k + Len(sep), Len(s)), sep)

ChunkInit ==
    /\ text \in Texts
    /\ chunk_size \in 1..MaxChunkSize
    /\ paragraphs = <<>>
    /\ para_no = 1
    /\ chunks = <<>>
    /\ current_chunk = <<>>
    /\ kpc = "start"

\* a text that fits is returned whole; a longer one is split at its
\* paragraph breaks
ChunkStart ==
    /\ kpc = "start"
    /\ IF Len(text) <= chunk_size
       THEN /\ chunks' = <<text>>
            /\ kpc' = "done"
            /\ UNCHANGED paragraphs
       ELSE /\ paragraphs' = Split(text, ParagraphBreak)
            /\ kpc' = "loop"
            /\ UNCHANGED chunks
    /\ UNCHANGED <<text, chunk_size, para_no, current_chunk>>

\* one pass of the for loop over the paragraphs
ChunkParagraph ==
    /\ kpc = "loop"
    /\ para_no <= Len(paragraphs)
    /\ LET para == paragraphs[para_no]
       IN IF Len(current_chunk) + Len(para) + 2 < chunk_size
          THEN /\ current_chunk' = current_chunk \o para \o ParagraphBreak
               /\ UNCHANGED chunks
          ELSE /\ chunks' = IF current_chunk # <<>> THEN Append(chunks, current_chunk)
                            ELSE chunks
               /\ current_chunk' = para \o ParagraphBreak
    /\ para_no' = para_no + 1
    /\ UNCHANGED <<text, chunk_size, paragraphs, kpc>>

\* after the loop: the last chunk is appended and the list returned
ChunkReturn ==
    /\ kpc = "loop"
    /\ para_no > Len(paragraphs)
    /\ chunks' = IF current_chunk # <<>> THEN Append(chunks, current_chunk) ELSE chunks
    /\ kpc' = "done"
    /\ UNCHANGED <<text, chunk_size, paragraphs, para_no, current_chunk>>

\* chunk_text is not called
ChunkIdle ==
    /\ text = <<>>
    /\ chunk_size = 1
    /\ paragraphs = <<>>
    /\ para_no = 1
    /\ chunks = <<>>
    /\ current_chunk = <<>>
    /\ kpc = "done"

ChunkNext ==
    \/ ChunkStart /\ UNCHANGED nonChunk
    \/ ChunkParagraph /\ UNCHANGED nonChunk
    \/ ChunkReturn /\ UNCHANGED nonChunk

\* extract_entries is called once
RepIdle ==
    /\ call_no = 1
    /\ given = <<>>
    /\ first_output = <<>>

\* ---- main(): one worker process per genre ----
Genres == {"romance", "scifi"}
MaxGenreTokens == 2
GenreItems ==
    { <<t, Data(l, t, 1)>> : t \in { <<"a","b">> }, l \in { <<"B","a">>, <<"b","b">> } }
    \cup { <<t, Data(<<"b","b">>, t, 1)>> : t \in { <<"A","b">> } }
    \cup { <<t, Data(<<"B","a">>, t, 1)>> : t \in { <<"b","a">> } }
GenreMappings ==
    UNION { { m \in [1..n -> GenreItems] :
                \A p, q \in 1..n : p # q => m[p][1] # m[q][1] } : n \in 0..MaxGenreTokens }

\* as OutputDir, with one directory for both genres
OutputDirShared(genre) == "candidates/romance"

\* ROMANCE_OUTPUT_DIR and SCIFI_OUTPUT_DIR
OutputDir(genre) == IF genre = "romance" THEN "candidates/romance" ELSE "candidates/scifi"
OutputDirs == {"candidates/romance", "candidates/scifi"}

NoFiles == [neo_combinations |-> Unwritten, novel_neologisms |-> Unwritten]

\* main() has loaded the dictionaries and submitted the two tasks: each
\* worker process has its own copy of the reference set and has read its
\* own input file
ParInit ==
    /\ chamber_entries = {}
    /\ corpus_dict \in SUBSET CorpusWords
    /\ combined_dict = load_dictionaries(chamber_entries, corpus_dict)
    /\ filtered_data = <<>>
    /\ idx = 1
    /\ neo_combinations = EmptyDict
    /\ novel_neologisms = EmptyDict
    /\ neo_combinations_output = Unwritten
    /\ novel_neologisms_output = Unwritten
    /\ cpc = "done"
    /\ w_dict = [g \in Genres |-> combined_dict]
    /\ w_data \in [Genres -> GenreMappings]
    /\ w_idx = [g \in Genres |-> 1]
    /\ w_neo = [g \in Genres |-> EmptyDict]
    /\ w_novel = [g \in Genres |-> EmptyDict]
    /\ w_pc = [g \in Genres |-> "loop"]
    /\ files = [d \in OutputDirs |-> NoFiles]

\* one pass of the for loop of the worker of genre g
WorkerStep(g) ==
    /\ w_pc[g] = "loop"
    /\ w_idx[g] <= Len(w_data[g])
    /\ LET token == w_data[g][w_idx[g]][1]
           data == w_data[g][w_idx[g]][2]
           r == ClassifyStep([neo |-> w_neo[g], novel |-> w_novel[g]],
                             token, data, w_dict[g])
       IN /\ w_neo' = [w_neo EXCEPT ![g] = r.neo]
          /\ w_novel' = [w_novel EXCEPT ![g] = r.novel]
    /\ w_idx' = [w_idx EXCEPT ![g] = @ + 1]
    /\ UNCHANGED <<w_dict, w_data, w_pc, files>>

\* the loop of the worker of genre g is over: neo_combinations.json is
\* written in its output directory
WorkerDumpNeo(g) ==
    /\ w_pc[g] = "loop"
    /\ w_idx[g] > Len(w_data[g])
    /\ files' = [files EXCEPT ![OutputDir(g)].neo_combinations = GenreOutput(w_neo[g])]
    /\ w_pc' = [w_pc EXCEPT ![g] = "dumping"]
    /\ UNCHANGED <<w_dict, w_data, w_idx, w_neo, w_novel>>

\* then novel_neologisms.json, and the worker returns
WorkerDumpNovel(g) ==
    /\ w_pc[g] = "dumping"
    /\ files' = [files EXCEPT ![OutputDir(g)].novel_neologisms = GenreOutput(w_novel[g])]
    /\ w_pc' = [w_pc EXCEPT ![g] = "done"]
    /\ UNCHANGED <<w_dict, w_data, w_idx, w_neo, w_novel>>

\* main() is not running
ParIdle ==
    /\ w_dict = [g \in Genres |-> {}]
    /\ w_data = [g \in Genres |-> <<>>]
    /\ w_idx = [g \in Genres |-> 1]
    /\ w_neo = [g \in Genres |-> EmptyDict]
    /\ w_novel = [g \in Genres |-> EmptyDict]
    /\ w_pc = [g \in Genres |-> "done"]
    /\ files = [d \in OutputDirs |-> NoFiles]

ParNext ==
    \/ \E g \in Genres : WorkerStep(g) /\ UNCHANGED nonPar
    \/ \E g \in Genres : WorkerDumpNeo(g) /\ UNCHANGED nonPar
    \/ \E g \in Genres : WorkerDumpNovel(g) /\ UNCHANGED nonPar

InitParallel == ParInit /\ ExtIdle /\ RepIdle /\ ChunkIdle /\ CorpIdle /\ ValIdle

SpecParallel == InitParallel /\ [][ParNext]_vars

InitChunk == ChunkInit /\ ClsIdle /\ ExtIdle /\ RepIdle /\ ParIdle /\ CorpIdle /\ ValIdle

SpecChunk == InitChunk /\ [][ChunkNext]_vars

InitCorpus == CorpInit /\ ClsIdle /\ ExtIdle /\ RepIdle /\ ParIdle /\ ChunkIdle /\ ValIdle

SpecCorpus == InitCorpus /\ [][CorpNext]_vars

InitValidator == ValInit /\ ClsIdle /\ ExtIdle /\ RepIdle /\ ParIdle /\ ChunkIdle /\ CorpIdle

SpecValidator == InitValidator /\ [][ValNext]_vars

\* ---- token records that lack a field ----
ShapeTokens == { <<"a">>, <<"a","b">>, <<"b","a">> }
NoLemma(full_form) == [pos |-> "NOUN", full_form |-> full_form, frequency |-> 1]
NoFrequency(lemma, full_form) == [lemma |-> lemma, pos |-> "NOUN", full_form |-> full_form]
ShapeItems ==
    { <<t, Data(<<"a","b">>, t, 1)>> : t \in ShapeTokens }
    \cup { <<t, NoLemma(t)>> : t \in ShapeTokens }
    \cup { <<t, NoFrequency(l, t)>> : t \in ShapeTokens, l \in { <<"a","b">>, <<"b","b">> } }
ShapeMappings ==
    UNION { { m \in [1..n -> ShapeItems] :
                \A p, q \in 1..n : p # q => m[p][1] # m[q][1] } : n \in 0..MaxTokens }

ShapeInit ==
    /\ chamber_entries \in SUBSET ChamberWords
    /\ corpus_dict \in SUBSET CorpusWords
    /\ combined_dict = load_dictionaries(chamber_entries, corpus_dict)
    /\ filtered_data \in ShapeMappings
    /\ idx = 1
    /\ neo_combinations = EmptyDict
    /\ novel_neologisms = EmptyDict
    /\ neo_combinations_output = Unwritten
    /\ novel_neologisms_output = Unwritten
    /\ cpc = "loop"

ClsNext ==
    \/ ClassifyToken /\ UNCHANGED nonCls
    \/ ClassifyDone /\ UNCHANGED nonCls

InitClassifier == ClsInit /\ ExtIdle /\ RepIdle /\ ParIdle /\ ChunkIdle /\ CorpIdle /\ ValIdle

SpecClassifier == InitClassifier /\ [][ClsNext]_vars

InitShape == ShapeInit /\ ExtIdle /\ RepIdle /\ ParIdle /\ ChunkIdle /\ CorpIdle /\ ValIdle

\* ---- longer mappings, for the order of iteration ----
MaxOrderTokens == 3
OrderItems ==
    { <<t, Data(l, t, 1)>> : t \in { <<"a">>, <<"a","b">>, <<"A","b">>, <<"b","a">> },
                             l \in { <<"B","a">>, <<"b","b">> } }
OrderMappings ==
    UNION { { m \in [1..n -> OrderItems] :
                \A p, q \in 1..n : p # q => m[p][1] # m[q][1] } : n \in 0..MaxOrderTokens }

OrderInit ==
    /\ chamber_entries \in SUBSET ChamberWords
    /\ corpus_dict \in SUBSET CorpusWords
    /\ combined_dict = load_dictionaries(chamber_entries, corpus_dict)
    /\ filtered_data \in OrderMappings
    /\ idx = 1
    /\ neo_combinations = EmptyDict
    /\ novel_neologisms = EmptyDict
    /\ neo_combinations_output = Unwritten
    /\ novel_neologisms_output = Unwritten
    /\ cpc = "loop"

InitOrder == OrderInit /\ ExtIdle /\ RepIdle /\ ParIdle /\ ChunkIdle /\ CorpIdle /\ ValIdle

SpecOrder == InitOrder /\ [][ClsNext]_vars

SpecShape == InitShape /\ [][ClsNext]_vars

---------------------------------------------------------------------------
(* filter_dict_creator.py                                                  *)

\* Python's None, which no string equals
None == <<"None">>
Truthy(x) == x # None /\ x # <<>>

\* the age at which check_brackets_and_close drops a frame
MaxAge == 10

Min(S) == CHOOSE x \in S : \A y \in S : x <= y
Max(S) == CHOOSE x \in S : \A y \in S : x >= y

\* str.find: the 0-based index of the first occurrence, or -1
Find(s, sub) ==
    LET at == {k \in 0..(Len(s) - Len(sub)) : SubSeq(s, k + 1, k + Len(sub)) = sub}
    IN IF at = {} THEN -1 ELSE Min(at)

\* entry_pattern = ^[A-Za-z\-']+(?=, {2}) applied with match(): the class
\* takes as many characters as it can and gives back until the lookahead
\* (a comma and two spaces) holds; the result is match.group() or None
HeadChars == AsciiLetters \cup {"-", "'"}
LookingAt(s, p, lit) == p + Len(lit) - 1 <= Len(s) /\ SubSeq(s, p, p + Len(lit) - 1) = lit
EntryLookahead == <<",", " ", " ">>
\* as entry_pattern, with a lookahead for lit instead of ",  "
EntryPatternBefore(line, lit) ==
    LET ks == {k \in 1..Len(line) :
                 /\ \A j \in 1..k : line[j] \in HeadChars
                 /\ LookingAt(line, k + 1, lit)}
    IN IF ks = {} THEN None ELSE SubSeq(line, 1, Max(ks))
entry_pattern_one_space(line) == EntryPatternBefore(line, <<",", " ">>)
entry_pattern_no_comma(line) == EntryPatternBefore(line, <<" ", " ">>)

\* as entry_pattern, with * for +: the class may take no character at all
entry_pattern_star(line) ==
    LET ks == {k \in 0..Len(line) :
                 /\ \A j \in 1..k : line[j] \in HeadChars
                 /\ LookingAt(line, k + 1, EntryLookahead)}
    IN IF ks = {} THEN None ELSE SubSeq(line, 1, Max(ks))

entry_pattern(line) ==
    LET ks == {k \in 1..Len(line) :
                 /\ \A j \in 1..k : line[j] \in HeadChars
                 /\ LookingAt(line, k + 1, EntryLookahead)}
    IN IF ks = {} THEN None ELSE SubSeq(line, 1, Max(ks))

\* as combine_hyphen, applied with search(): the match may start anywhere
combine_hyphen_search(line) ==
    LET n == Len(line)
        at == {p \in 1..(n - 3) :
                 /\ line[p + 1] = " "
                 /\ line[n] = "-"
                 /\ \A j \in (p + 2)..(n - 1) : line[j] \in AsciiLetters}
    IN IF at = {} THEN None ELSE SubSeq(line, Min(at) + 2, n - 1)

\* combine_hyphen = ". ([a-zA-Z]+)-$" applied with match(): any character, a
\* space, letters, a hyphen, the end of the line; the result is group(1) or None
combine_hyphen(line) ==
    LET n == Len(line)
    IN IF /\ n >= 4
          /\ line[2] = " "
          /\ line[n] = "-"
          /\ \A j \in 3..(n - 1) : line[j] \in AsciiLetters
       THEN SubSeq(line, 3, n - 1)
       ELSE None

\* as update_bracket_stack, a closer popping only a frame of its own kind
RECURSIVE update_bracket_stack_matching(_, _)
update_bracket_stack_matching(line, stack) ==
    IF line = <<>> THEN stack
    ELSE LET char == Head(line)
             top == IF stack = <<>> THEN "" ELSE stack[Len(stack)][1]
             next == IF char \in {"[", "("} THEN Append(stack, <<char, 0>>)
                     ELSE IF (char = ")" /\ top = "(") \/ (char = "]" /\ top = "[")
                          THEN SubSeq(stack, 1, Len(stack) - 1)
                          ELSE stack
         IN update_bracket_stack_matching(Tail(line), next)

RECURSIVE update_bracket_stack(_, _)
update_bracket_stack(line, stack) ==
    IF line = <<>> THEN stack
    ELSE LET char == Head(line)
             next == IF char \in {"[", "("} THEN Append(stack, <<char, 0>>)
                     ELSE IF char \in {")", "]"} /\ stack # <<>>
                          THEN SubSeq(stack, 1, Len(stack) - 1)
                          ELSE stack
         IN update_bracket_stack(Tail(line), next)

\* as check_brackets_and_close, dropping a frame only when its age exceeds MaxAge
check_brackets_and_close_late(stack, empty_line) ==
    LET aged == [k \in DOMAIN stack |->
                    IF stack[k][2] > MaxAge \/ empty_line THEN None
                    ELSE <<stack[k][1], stack[k][2] + 1>>]
    IN SelectSeq(aged, LAMBDA b : b # None)

\* as check_brackets_and_close, an empty line dropping nothing
check_brackets_and_close_by_age(stack, empty_line) ==
    LET aged == [k \in DOMAIN stack |->
                    IF stack[k][2] >= MaxAge THEN None
                    ELSE <<stack[k][1], stack[k][2] + 1>>]
    IN SelectSeq(aged, LAMBDA b : b # None)

check_brackets_and_close(stack, empty_line) ==
    LET aged == [k \in DOMAIN stack |->
                    IF stack[k][2] >= MaxAge \/ empty_line THEN None
                    ELSE <<stack[k][1], stack[k][2] + 1>>]
    IN SelectSeq(aged, LAMBDA b : b # None)

\* as is_inside_brackets, never inside
is_inside_brackets_never(stack) == FALSE

is_inside_brackets(stack) == stack # <<>>

\* returns <<first, second>> as the Python tuple
handle_hyphenated_words(word, line) ==
    LET hyphen_match == combine_hyphen(line)
    IN IF word # <<>> /\ hyphen_match # None THEN <<word \o hyphen_match, <<>> >>
       ELSE IF hyphen_match # None THEN <<hyphen_match \o <<"-">>, word>>
       ELSE << <<>>, word>>

process_line_for_entry(line, word) ==
    LET match == entry_pattern(line)
    IN IF word # <<>> /\ match # None THEN <<word \o match, <<>> >>
       ELSE IF match # None THEN <<match, <<>> >>
       ELSE <<None, word>>

\* as should_skip_entry, without recording the letter of a skipped jump
should_skip_entry_forgets(current, previous, letters) ==
    IF previous = <<>> THEN <<FALSE, letters, "">>
    ELSE IF current = <<>> THEN <<FALSE, letters, "IndexError">>
    ELSE LET prev_letter == Head(Lower(<<previous[1]>>))
             curr_letter == Head(Lower(<<current[1]>>))
         IN IF Abs(Ord(curr_letter) - Ord(prev_letter)) > 1
            THEN IF curr_letter \in letters THEN <<FALSE, letters, "">>
                 ELSE <<TRUE, letters, "">>
            ELSE <<FALSE, letters, "">>

\* returns <<result, first_letters after the call, exception>>: the
\* exception is "" when the call returns, and the name of what it raises
\* otherwise (current_entry[0] of an empty string, ord() of a string that
\* is not one character long)
should_skip_entry(current, previous, letters) ==
    IF previous = <<>> THEN <<FALSE, letters, "">>
    ELSE IF current = <<>> THEN <<FALSE, letters, "IndexError">>
    ELSE IF Len(Lower(<<current[1]>>)) # 1 \/ Len(Lower(<<previous[1]>>)) # 1
         THEN <<FALSE, letters, "TypeError">>
    ELSE LET prev_letter == Head(Lower(<<previous[1]>>))
             curr_letter == Head(Lower(<<current[1]>>))
         IN IF Abs(Ord(curr_letter) - Ord(prev_letter)) > 1
            THEN IF curr_letter \in letters THEN <<FALSE, letters, "">>
                 ELSE <<TRUE, letters \cup {curr_letter}, "">>
            ELSE <<FALSE, letters, "">>

\* as BracketIndex, finding no bracket
BracketIndexNone(line) == -1

\* the index of the first "(" or "[" of the line, or -1
BracketIndex(line) ==
    LET found == {Find(line, <<c>>) : c \in {"(", "["}} \ {-1}
    IN IF found = {} THEN -1 ELSE Min(found)

\* as save_entries_to_json, dumping the list as it is
save_entries_as_listed(list) == list

\* sorted(set(entries)) of save_entries_to_json
save_entries_to_json(list) == Sorted(Range(list))

\* One pass of the for loop of extract_entries_from_lines over `line`, from
\* the state st; the result is the state after the pass.
Pass(st, line) ==
    LET r1 == process_line_for_entry(line, st.incomplete_word)
        current_entry == r1[1]
        word1 == r1[2]
        bracket_index == BracketIndex(line)
        branchA == /\ Truthy(current_entry)
                   /\ bracket_index # -1
                   /\ bracket_index > Find(line, current_entry)
        stack1 == check_brackets_and_close(
                      update_bracket_stack(line, st.bracket_stack), line = <<>>)
        base == [st EXCEPT !.incomplete_word = word1, !.bracket_stack = stack1]
        \* entry: the candidate; after: the "brackets start after it" message;
        \* said: the message that ends the pass; why: which operand of the
        \* `or` of the skip test was true
        say(what, why) == Append(st.printed,
                            [entry |-> current_entry, after |-> branchA,
                             said |-> what, why |-> why])
    IN IF ~branchA /\ current_entry = None
       THEN [base EXCEPT !.previous_line_is_entry = FALSE,
                         !.printed = say("no_match", "-")]
       ELSE IF ~branchA /\ is_inside_brackets(stack1)
       THEN [base EXCEPT !.printed = say("inside_brackets", "-")]
       ELSE LET r2 == handle_hyphenated_words(word1, line)
                word2 == r2[1]
                previous_incomplete_word == r2[2]
                hyph == [base EXCEPT !.incomplete_word = word2]
            IN IF previous_incomplete_word # <<>>
               THEN [hyph EXCEPT !.printed = say("hyphen_start", "-")]
               ELSE IF st.previous_line_is_entry
               THEN [hyph EXCEPT !.previous_line_is_entry = FALSE,
                                 !.printed = say("skipped", "repeat")]
               ELSE LET r3 == should_skip_entry(current_entry, st.previous_entry,
                                                st.first_letters)
                    IN IF r3[3] # ""
                       THEN [hyph EXCEPT !.epc = "raised"]
                       ELSE IF r3[1]
                       THEN [hyph EXCEPT !.previous_line_is_entry = FALSE,
                                         !.first_letters = r3[2],
                                         !.printed = say("skipped", "jump")]
                       ELSE [hyph EXCEPT !.entries = Append(st.entries, current_entry),
                                         !.previous_line_is_entry = TRUE,
                                         !.previous_entry = current_entry,
                                         !.first_letters = r3[2],
                                         !.printed = say("added", "-")]

ExtState ==
    [entries |-> entries, previous_line_is_entry |-> previous_line_is_entry,
     previous_entry |-> previous_entry, incomplete_word |-> incomplete_word,
     bracket_stack |-> bracket_stack, first_letters |-> first_letters,
     printed |-> printed, epc |-> epc]

\* the state extract_entries_from_lines starts from
ExtStart ==
    /\ lines = <<>>
    /\ entries = <<>>
    /\ previous_line_is_entry = FALSE
    /\ previous_entry = <<>>
    /\ incomplete_word = <<>>
    /\ bracket_stack = <<>>
    /\ first_letters = {}
    /\ printed = <<>>
    /\ output = <<>>
    /\ epc = "loop"

\* the loop takes the next line of the input
ProcessLine(line) ==
    /\ epc = "loop"
    /\ LET st == Pass(ExtState, line)
       IN /\ entries' = st.entries
          /\ previous_line_is_entry' = st.previous_line_is_entry
          /\ previous_entry' = st.previous_entry
          /\ incomplete_word' = st.incomplete_word
          /\ bracket_stack' = st.bracket_stack
          /\ first_letters' = st.first_letters
          /\ printed' = st.printed
          /\ epc' = st.epc
    /\ lines' = Append(lines, line)
    /\ UNCHANGED output

\* the input is exhausted: extract_entries saves what the loop returned
SaveEntries ==
    /\ epc = "loop"
    /\ output' = save_entries_to_json(entries)
    /\ epc' = "done"
    /\ UNCHANGED <<lines, entries, previous_line_is_entry, previous_entry,
                   incomplete_word, bracket_stack, first_letters, printed>>

\* ---- the dictionary lines the extractor is run on ----
MaxLines == 3

EmptyLine == <<>>
FooBar == <<"f", "o", "o", " ", " ", "b", "a", "r">>
FooCommaBar == <<"f", "o", "o", ",", " ", " ", "b", "a", "r">>
BazQux == <<"b", "a", "z", " ", "(", "q", "u", "x">>
QuuxEnd == <<"q", "u", "u", "x", ")", " ", "e", "n", "d">>
ZimZam == <<"z", "i", "m", " ", " ", "z", "a", "m">>
ZimCommaZam == <<"z", "i", "m", ",", " ", " ", "z", "a", "m">>
SomeTextEti == <<"s", "o", "m", "e", " ", "t", "e", "x", "t", " ", "e", "t", "i", "-">>
MologyFollows == <<"m", "o", "l", "o", "g", "y", " ", "f", "o", "l", "l", "o", "w", "s", ",", " ", "m", "o", "r", "e", " ", "t", "e", "x", "t">>
EEti == <<"e", " ", "e", "t", "i", "-">>
MologyEntry == <<"m", "o", "l", "o", "g", "y", ",", " ", " ", "x">>
AbOpen == <<"a", "b", ",", " ", " ", "x", " ", "(">>
AcClose == <<"A", "c", ",", " ", " ", "y", ")">>
OneSpace == <<"f", "o", ",", " ", "b", "a", "r">>
NoHead == <<",", " ", " ", "x">>
HyphenHead == <<"a", "-", "b", ",", " ", " ", "c">>
ApostHead == <<"-", "o", "'", "c", ",", " ", " ", "d">>

ExtLines == {EmptyLine, FooBar, FooCommaBar, BazQux, QuuxEnd, SomeTextEti,
             MologyFollows, EEti, MologyEntry, AbOpen, AcClose, OneSpace, NoHead,
             HyphenHead, ApostHead}

ExtNext ==
    \/ \E line \in ExtLines : Len(lines) < MaxLines /\ ProcessLine(line) /\ UNCHANGED nonExt
    \/ SaveEntries /\ UNCHANGED nonExt

InitExtractor == ExtStart /\ ClsIdle /\ RepIdle /\ ParIdle /\ ChunkIdle /\ CorpIdle /\ ValIdle

SpecExtractor == InitExtractor /\ [][ExtNext]_vars

\* ---- the bracket test of the specification, with and without the comma ----
MaxTestLines == 4
TestLines == {FooBar, BazQux, QuuxEnd, ZimZam, FooCommaBar, ZimCommaZam}

BracketTestNext ==
    \/ \E line \in TestLines :
          Len(lines) < MaxTestLines /\ ProcessLine(line) /\ UNCHANGED nonExt
    \/ SaveEntries /\ UNCHANGED nonExt

InitBracketTest == ExtStart /\ ClsIdle /\ RepIdle /\ ParIdle /\ ChunkIdle /\ CorpIdle /\ ValIdle

SpecBracketTest == InitBracketTest /\ [][BracketTestNext]_vars

\* ---- runs of headword lines whose first letters jump ----
MaxJumpLines == 6
AbX == <<"a", "b", ",", " ", " ", "x">>
BcX == <<"b", "c", ",", " ", " ", "x">>
ZaX == <<"z", "a", ",", " ", " ", "x">>
ZbX == <<"z", "b", ",", " ", " ", "x">>
JumpLines == {EmptyLine, AbX, BcX, ZaX, ZbX}

LetterJumpNext ==
    \/ \E line \in JumpLines :
          Len(lines) < MaxJumpLines /\ ProcessLine(line) /\ UNCHANGED nonExt
    \/ SaveEntries /\ UNCHANGED nonExt

InitLetterJump == ExtStart /\ ClsIdle /\ RepIdle /\ ParIdle /\ ChunkIdle /\ CorpIdle /\ ValIdle

SpecLetterJump == InitLetterJump /\ [][LetterJumpNext]_vars

\* ---- lines of brackets only, unmatched closers, odd headwords ----
MaxTotalLines == 4
OnlyOpen == <<"(", "[">>
OnlyClose == <<")", "]">>
QuoteHead == <<"'", "a", ",", " ", " ", "b">>
TotalLines == {EmptyLine, OnlyOpen, OnlyClose, ApostHead, QuoteHead, NoHead, AbX}

TotalNext ==
    \/ \E line \in TotalLines :
          Len(lines) < MaxTotalLines /\ ProcessLine(line) /\ UNCHANGED nonExt
    \/ SaveEntries /\ UNCHANGED nonExt

InitTotal == ExtStart /\ ClsIdle /\ RepIdle /\ ParIdle /\ ChunkIdle /\ CorpIdle /\ ValIdle

SpecTotal == InitTotal /\ [][TotalNext]_vars

\* ---- lines that end with a hyphenated fragment ----
MaxHyphenLines == 3
AbDeHyphen == <<"a", "b", ",", " ", " ", "c", " ", "d", "e", "-">>
HyphenLines == {EmptyLine, EEti, SomeTextEti, AbDeHyphen, MologyEntry}

HyphenNext ==
    \/ \E line \in HyphenLines :
          Len(lines) < MaxHyphenLines /\ ProcessLine(line) /\ UNCHANGED nonExt
    \/ SaveEntries /\ UNCHANGED nonExt

InitHyphen == ExtStart /\ ClsIdle /\ RepIdle /\ ParIdle /\ ChunkIdle /\ CorpIdle /\ ValIdle

SpecHyphen == InitHyphen /\ [][HyphenNext]_vars

\* ---- long runs of lines after an opening bracket ----
MaxAgeLines == 11
AgeLines == {AbOpen, MologyEntry}

AgeNext ==
    \/ \E line \in AgeLines :
          Len(lines) < MaxAgeLines /\ ProcessLine(line) /\ UNCHANGED nonExt
    \/ SaveEntries /\ UNCHANGED nonExt

InitAge == ExtStart /\ ClsIdle /\ RepIdle /\ ParIdle /\ ChunkIdle /\ CorpIdle /\ ValIdle

SpecAge == InitAge /\ [][AgeNext]_vars

\* ---- headword lines with brackets after the headword ----
MaxBranchLines == 4
AbParen == <<"a", "b", ",", " ", " ", "(", "x", ")">>
ZaOpen == <<"z", "a", ",", " ", " ", "x", " ", "[">>
BranchLines == {EmptyLine, OnlyOpen, AbOpen, AbParen, ZaOpen, AbX}

BranchNext ==
    \/ \E line \in BranchLines :
          Len(lines) < MaxBranchLines /\ ProcessLine(line) /\ UNCHANGED nonExt
    \/ SaveEntries /\ UNCHANGED nonExt

InitBranch == ExtStart /\ ClsIdle /\ RepIdle /\ ParIdle /\ ChunkIdle /\ CorpIdle /\ ValIdle

SpecBranch == InitBranch /\ [][BranchNext]_vars

\* ---- lines of one bracket each, of both kinds ----
MaxStackLines == 5
OpenRound == <<"(">>
OpenSquare == <<"[">>
CloseRound == <<")">>
CloseSquare == <<"]">>
StackLines == {EmptyLine, OpenRound, OpenSquare, CloseRound, CloseSquare, AbX}

StackNext ==
    \/ \E line \in StackLines :
          Len(lines) < MaxStackLines /\ ProcessLine(line) /\ UNCHANGED nonExt
    \/ SaveEntries /\ UNCHANGED nonExt

InitStack == ExtStart /\ ClsIdle /\ RepIdle /\ ParIdle /\ ChunkIdle /\ CorpIdle /\ ValIdle

SpecStack == InitStack /\ [][StackNext]_vars

\* ---- extract_entries called twice on the same lines, in one process ----
MaxRepeatLines == 3
RepeatLines == {EmptyLine, AbX, BcX, ZaX, AbOpen}

\* as NewLocals, if first_letters and previous_entry were module-level
\* names that outlive a call
KeptLocals ==
    [entries |-> <<>>, previous_line_is_entry |-> FALSE,
     previous_entry |-> previous_entry, incomplete_word |-> <<>>,
     bracket_stack |-> <<>>, first_letters |-> first_letters]

\* the locals extract_entries_from_lines creates when it is called
NewLocals ==
    [entries |-> <<>>, previous_line_is_entry |-> FALSE,
     previous_entry |-> <<>>, incomplete_word |-> <<>>,
     bracket_stack |-> <<>>, first_letters |-> {}]

\* the first call takes any next line
FirstRunLine(line) ==
    /\ call_no = 1
    /\ Len(lines) < MaxRepeatLines
    /\ ProcessLine(line)
    /\ UNCHANGED repVars

\* the second call takes the next of the lines the first call was given
SecondRunLine ==
    /\ call_no = 2
    /\ Len(lines) < Len(given)
    /\ ProcessLine(given[Len(lines) + 1])
    /\ UNCHANGED repVars

\* either call has taken all its lines
RunSaves ==
    /\ call_no = 2 => Len(lines) = Len(given)
    /\ SaveEntries
    /\ UNCHANGED repVars

\* the first call has returned; extract_entries is called again on the
\* same lines: the file keeps the first dump until the second one
RunAgain ==
    /\ call_no = 1
    /\ epc = "done"
    /\ call_no' = 2
    /\ given' = lines
    /\ first_output' = output
    /\ lines' = <<>>
    /\ printed' = <<>>
    /\ entries' = NewLocals.entries
    /\ previous_line_is_entry' = NewLocals.previous_line_is_entry
    /\ previous_entry' = NewLocals.previous_entry
    /\ incomplete_word' = NewLocals.incomplete_word
    /\ bracket_stack' = NewLocals.bracket_stack
    /\ first_letters' = NewLocals.first_letters
    /\ epc' = "loop"
    /\ UNCHANGED output

RepeatNext ==
    \/ \E line \in RepeatLines : FirstRunLine(line) /\ UNCHANGED nonRep
    \/ SecondRunLine /\ UNCHANGED nonRep
    \/ RunSaves /\ UNCHANGED nonRep
    \/ RunAgain /\ UNCHANGED nonRep

InitRepeat == ExtStart /\ ClsIdle /\ RepIdle /\ ParIdle /\ ChunkIdle /\ CorpIdle /\ ValIdle

SpecRepeat == InitRepeat /\ [][RepeatNext]_vars

---------------------------------------------------------------------------
(* Properties of the classifier (SpecClassifier)                           *)

TokenAt(k) == filtered_data[k][1]
LemmaAt(k) == filtered_data[k][2].lemma
Handled == 1..(idx - 1)
InNeo(t) == t \in DOMAIN neo_combinations
InNovel(t) == t \in DOMAIN novel_neologisms

\* C1: a handled token longer than one character, with a lemma longer than
\* one character, whose lowercase form is not in the reference set, is in
\* neo_combinations exactly when its lowercase lemma is in the reference set
\* and in novel_neologisms exactly when it is not.
C1_TwoTierLookup ==
    \A k \in Handled :
        (Len(TokenAt(k)) > 1 /\ Len(LemmaAt(k)) > 1
            /\ Lower(TokenAt(k)) \notin combined_dict)
        => /\ InNeo(TokenAt(k)) <=> Lower(LemmaAt(k)) \in combined_dict
           /\ InNovel(TokenAt(k)) <=> Lower(LemmaAt(k)) \notin combined_dict

\* a finished run that put one token in each output, the neo-combination
\* through a lemma that is in the reference set only once lowercased
C1_Witness ==
    /\ cpc = "done"
    /\ \E k, m \in Handled :
          /\ InNeo(TokenAt(k)) /\ LemmaAt(k) \notin combined_dict
          /\ InNovel(TokenAt(m)) /\ Len(LemmaAt(m)) > 1

\* C2: a handled token whose lowercase form is in the reference set is in
\* neither output, whatever its lemma is.
C2_KnownExcluded ==
    \A k \in Handled :
        Lower(TokenAt(k)) \in combined_dict
        => ~InNeo(TokenAt(k)) /\ ~InNovel(TokenAt(k))

\* a finished run with a capitalised token, longer than one character, that
\* the reference set holds in lowercase, and whose lemma it does not hold
C2_Witness ==
    /\ cpc = "done"
    /\ \E k \in Handled :
          /\ Len(TokenAt(k)) > 1 /\ Len(LemmaAt(k)) > 1
          /\ TokenAt(k) # Lower(TokenAt(k))
          /\ Lower(TokenAt(k)) \in combined_dict
          /\ Lower(LemmaAt(k)) \notin combined_dict

\* C3: after the run the keys of the two outputs are disjoint and are
\* together exactly the tokens with len(token) > 1 and len(lemma) > 1 whose
\* lowercase form is not in the reference set.
C3_PartitionComplete ==
    cpc = "done" =>
        LET NonDegenerate == {k \in Handled : Len(TokenAt(k)) > 1 /\ Len(LemmaAt(k)) > 1}
            Known == {k \in NonDegenerate : Lower(TokenAt(k)) \in combined_dict}
        IN /\ DOMAIN neo_combinations \cap DOMAIN novel_neologisms = {}
           /\ DOMAIN neo_combinations \cup DOMAIN novel_neologisms
                = {TokenAt(k) : k \in NonDegenerate \ Known}

\* C4: a handled token with len(token) <= 1 or len(lemma) <= 1 is in
\* neither output.
C4_DegenerateExcluded ==
    \A k \in Handled :
        (Len(TokenAt(k)) <= 1 \/ Len(LemmaAt(k)) <= 1)
        => ~InNeo(TokenAt(k)) /\ ~InNovel(TokenAt(k))

---------------------------------------------------------------------------
(* Properties of the extractor                                             *)

\* the longest prefix of the line made of headword characters
LeadRun(line) ==
    LET n == Max({0} \cup {k \in 1..Len(line) : \A j \in 1..k : line[j] \in HeadChars})
    IN SubSeq(line, 1, n)

\* the candidate of every line is its leading run when that run is not
\* empty and is followed by `follow`, and there is no candidate otherwise
CandidatesAre(follow) ==
    \A k \in DOMAIN printed :
        LET run == LeadRun(lines[k])
        IN printed[k].entry =
              IF run # <<>> /\ LookingAt(lines[k], Len(run) + 1, follow)
              THEN run ELSE None

\* C5 as stated: a line proposes an entry exactly when its leading run of
\* letters, hyphens and apostrophes is followed by two spaces.
C5_AsStated == CandidatesAre(<<" ", " ">>)

\* C5, amended: a line proposes an entry exactly when it starts with one or
\* more letters, hyphens or apostrophes that are followed by a comma and two
\* spaces, and the proposed entry is that leading run.
C5_HeadwordGrammar == CandidatesAre(<<",", " ", " ">>)

\* "foo,  bar" proposed foo, and "foo  bar" and "fo, bar" proposed nothing
C5_Witness ==
    \E k, m, n \in DOMAIN printed :
        /\ lines[k] = FooCommaBar /\ printed[k].entry = <<"f", "o", "o">>
        /\ lines[m] = FooBar /\ printed[m].entry = None
        /\ lines[n] = OneSpace /\ printed[n].entry = None

BracketTestInput == <<FooBar, BazQux, QuuxEnd, ZimZam>>

\* C6 as stated: on the four lines of the bracket test nothing is emitted
\* from lines 2 and 3 and line 4 is accepted, its headword being returned.
C6_AsStated ==
    lines = BracketTestInput =>
        /\ printed[2].said # "added"
        /\ printed[3].said # "added"
        /\ printed[4].said = "added"
        /\ <<"z", "i", "m">> \in Range(entries)

\* C6, amended: on the four lines of the bracket test nothing is emitted
\* from lines 2 and 3, and line 4 is not accepted either: no line has a
\* candidate, the returned entries are empty and so is the saved list.
C6_BracketTest ==
    lines = BracketTestInput =>
        /\ \A k \in 1..4 : printed[k].said = "no_match" /\ printed[k].entry = None
        /\ entries = <<>>
        /\ bracket_stack = <<>>
        /\ (epc = "done" => output = <<>>)

C6_Witness == lines = BracketTestInput /\ epc = "done"

\* the letters between the last space and a hyphen that ends the line
TrailingFragment(line) ==
    LET n == Len(line)
        from == {k \in 1..(n - 1) : \A j \in k..(n - 1) : line[j] \in AsciiLetters}
    IN IF n >= 2 /\ line[n] = "-" /\ from # {}
       THEN SubSeq(line, Min(from), n - 1) ELSE None

IsPrefix(a, b) == Len(a) <= Len(b) /\ SubSeq(b, 1, Len(a)) = a

\* C7: a line that ends with a word fragment and a hyphen leaves the
\* fragment in the incomplete-word buffer, and the line after it is
\* considered with the fragment in front of its own start.
C7_HyphenCarryOver ==
    \A k \in DOMAIN lines :
        TrailingFragment(lines[k]) # None =>
            /\ k = Len(lines) => IsPrefix(TrailingFragment(lines[k]), incomplete_word)
            /\ k < Len(lines) =>
                  /\ printed[k + 1].entry # None
                  /\ IsPrefix(TrailingFragment(lines[k]), printed[k + 1].entry)

\* the first letter should_skip_entry compares, and the entry it compares with
FirstLetter(entry) == Head(Lower(<<entry[1]>>))
Judged(k) == printed[k].said = "added" \/ printed[k].why = "jump"
JumpSkipped(k) == printed[k].said = "skipped" /\ printed[k].why = "jump"
AddedBefore(k) == {j \in 1..(k - 1) : printed[j].said = "added"}
IsJump(k) ==
    /\ AddedBefore(k) # {}
    /\ Abs(Ord(FirstLetter(printed[k].entry))
           - Ord(FirstLetter(printed[Max(AddedBefore(k))].entry))) > 1

LetterJumpInput == <<AbX, EmptyLine, AbX, EmptyLine, ZaX, ZbX>>

C9_RepeatSuppression ==
    /\ \A k \in 1..(Len(printed) - 1) :
          printed[k].said = "added" => printed[k + 1].said # "added"
    /\ \A k \in DOMAIN printed :
          (printed[k].said = "skipped" /\ printed[k].why = "repeat")
          => (k > 1 /\ printed[k - 1].said = "added")

\* C10: the saved list is strictly ascending (hence without duplicates),
\* holds exactly the accepted entries, and each of its elements is a
\* non-empty string of letters, hyphens and apostrophes.
C10_SavedOutput ==
    epc = "done" =>
        /\ \A k \in 1..(Len(output) - 1) : StrLess(output[k], output[k + 1])
        /\ Range(output) = Range(entries)
        /\ \A k \in DOMAIN output :
              output[k] # <<>> /\ Range(output[k]) \subseteq HeadChars

\* a saved run whose two accepted entries were not in ascending order
C10_Witness ==
    /\ epc = "done"
    /\ Len(entries) = 2
    /\ Len(output) = 2
    /\ output # entries


\* C11: the extractor is total on any sequence of lines (SpecTotal: empty
\* lines, lines of brackets only, unmatched closers, headwords that start
\* with a hyphen or an apostrophe): no exception leaves the loop, every line
\* taken so far was handled once and in order (one log record per line, for
\* that line's candidate), every line appended at most one entry, and the
\* run of no line at all returns and saves the empty list.
AddedAt == {k \in DOMAIN printed : printed[k].said = "added"}
C11_ExtractorTotal ==
    /\ epc # "raised"
    /\ Len(printed) = Len(lines)
    /\ \A k \in DOMAIN printed : printed[k].entry = entry_pattern(lines[k])
    /\ Len(entries) = Cardinality(AddedAt)
    /\ Len(entries) <= Len(lines)
    /\ (lines = <<>> => entries = <<>> /\ output = <<>>)
C11_Witness ==
    /\ epc = "done"
    /\ Len(lines) = MaxTotalLines
    /\ \E i, j, k \in DOMAIN lines :
          /\ i < j /\ j < k
          /\ lines[i] = OnlyClose
          /\ lines[j] = ApostHead /\ printed[j].said = "added"
          /\ lines[k] = QuoteHead


\* C12: extraction is repeatable (SpecRepeat): a second call of the
\* extractor on the same lines, made in the same process after the first
\* has returned, starts from freshly created locals and, once it has taken
\* all the lines, has the same entries as a run from scratch and dumps the
\* same sorted list without duplicates as the first call did.
RECURSIVE RunFrom(_, _)
RunFrom(st, ls) == IF ls = <<>> THEN st ELSE RunFrom(Pass(st, Head(ls)), Tail(ls))
Scratch ==
    [entries |-> <<>>, previous_line_is_entry |-> FALSE, previous_entry |-> <<>>,
     incomplete_word |-> <<>>, bracket_stack |-> <<>>, first_letters |-> {},
     printed |-> <<>>, epc |-> "loop"]
InBucket(b) ==
    {TokenAt(k) : k \in {j \in DOMAIN filtered_data :
        Bucket(TokenAt(j), filtered_data[j][2], combined_dict) = b}}
ShapeOf(out, b) ==
    /\ DOMAIN out.aggregated_tokens = InBucket(b)
    /\ \A k \in DOMAIN filtered_data :
          TokenAt(k) \in InBucket(b) =>
              out.aggregated_tokens[TokenAt(k)] = filtered_data[k][2]
    /\ out.total_tokens = Cardinality(DOMAIN out.aggregated_tokens)
    /\ out.unique_tokens = Cardinality(DOMAIN out.aggregated_tokens)
C13_OutputShape ==
    (cpc = "done" /\ neo_combinations_output # Unwritten) =>
        /\ ShapeOf(neo_combinations_output, "neo_combination")
        /\ ShapeOf(novel_neologisms_output, "novel_neologism")
C13_Witness ==
    /\ cpc = "done"
    /\ neo_combinations_output # Unwritten
    /\ Len(filtered_data) = MaxTokens
    /\ neo_combinations_output.total_tokens = 1
    /\ novel_neologisms_output.total_tokens = 0


HasField(k, f) == f \in DOMAIN filtered_data[k][2]
\* the record the loop reads a lemma from and finds none
LacksLemma(k) == Len(TokenAt(k)) > 1 /\ ~HasField(k, "lemma")
LacksFrequency(k) == HasField(k, "lemma") /\ ~HasField(k, "frequency")
Inspected(k) == k \in Handled \/ (k = idx /\ cpc \notin {"loop", "done"})

\* C14 as stated: a record that lacks lemma or frequency makes the
\* classification fail with a MalformedTokenRecord signal and is placed in
\* neither bucket.
C14_AsStated ==
    \A k \in DOMAIN filtered_data :
        (Inspected(k) /\ (~HasField(k, "lemma") \/ ~HasField(k, "frequency")))
        => /\ cpc = "MalformedTokenRecord"
           /\ ~InNeo(TokenAt(k)) /\ ~InNovel(TokenAt(k))

\* C14: malformed records (SpecShape).  The loop stops with a KeyError
\* exactly at the first token longer than one character whose record has no
\* lemma: that record is in neither bucket and nothing is dumped.  A record
\* that lacks only its frequency is classified like a well-formed one (by
\* its lowercase token and lemma), and a record of a token of at most one
\* character is passed over whatever its fields.
C14_MalformedRecords ==
    /\ cpc \in {"loop", "done", "KeyError"}
    /\ \A k \in Handled : ~LacksLemma(k)
    /\ cpc = "KeyError" =>
          /\ idx \in DOMAIN filtered_data /\ LacksLemma(idx)
          /\ ~InNeo(TokenAt(idx)) /\ ~InNovel(TokenAt(idx))
          /\ neo_combinations_output = Unwritten
          /\ novel_neologisms_output = Unwritten
    /\ cpc = "done" => \A k \in DOMAIN filtered_data : ~LacksLemma(k)
    /\ \A k \in Handled :
          (LacksFrequency(k) /\ Len(TokenAt(k)) > 1
              /\ Lower(TokenAt(k)) \notin combined_dict)
          => /\ InNeo(TokenAt(k)) <=> Lower(LemmaAt(k)) \in combined_dict
             /\ InNovel(TokenAt(k)) <=> Lower(LemmaAt(k)) \notin combined_dict
    /\ \A k \in Handled :
          Len(TokenAt(k)) <= 1 => ~InNeo(TokenAt(k)) /\ ~InNovel(TokenAt(k))
\* a run stopped by a record without lemma after a record without
\* frequency went into a bucket
C14_Witness ==
    /\ cpc = "KeyError"
    /\ idx = 2
    /\ LacksFrequency(1)
    /\ InNovel(TokenAt(1))


\* the buckets a run of the loop over the items `seq` ends with
RECURSIVE Classified(_, _, _)
Classified(acc, seq, dict) ==
    IF seq = <<>> THEN acc
    ELSE Classified(ClassifyStep(acc, Head(seq)[1], Head(seq)[2], dict), Tail(seq), dict)
NoBuckets == [neo |-> EmptyDict, novel |-> EmptyDict]
OutputsOf(seq, dict) ==
    LET r == Classified(NoBuckets, seq, dict)
    IN <<GenreOutput(r.neo), GenreOutput(r.novel)>>
Orders(seq) ==
    {[i \in DOMAIN seq |-> seq[p[i]]] :
        p \in {f \in [DOMAIN seq -> DOMAIN seq] :
                  \A i, j \in DOMAIN seq : i # j => f[i] # f[j]}}
RECURSIVE PartFrom(_, _, _)
PartFrom(seq, S, k) ==
    IF k > Len(seq) THEN <<>>
    ELSE (IF k \in S THEN <<seq[k]>> ELSE <<>>) \o PartFrom(seq, S, k + 1)
Part(seq, S) == PartFrom(seq, S, 1)
DictUnion(d, e) == [x \in (DOMAIN d) \cup (DOMAIN e) |-> IF x \in DOMAIN d THEN d[x] ELSE e[x]]
OutputUnion(o, q) ==
    [aggregated_tokens |-> DictUnion(o.aggregated_tokens, q.aggregated_tokens),
     total_tokens |-> o.total_tokens + q.total_tokens,
     unique_tokens |-> o.unique_tokens + q.unique_tokens]

\* C15: no cross-token interaction (SpecOrder): the two outputs of a
\* finished run are the outputs of a run over the same tokens in any other
\* order, and for every split of the tokens into two disjoint parts they
\* are the union of the outputs of the runs over the parts.
C15_NoInteraction ==
    (cpc = "done" /\ neo_combinations_output # Unwritten) =>
        LET whole == <<neo_combinations_output, novel_neologisms_output>>
        IN /\ \A seq \in Orders(filtered_data) :
                 OutputsOf(seq, combined_dict) = whole
           /\ \A S \in SUBSET DOMAIN filtered_data :
                 LET one == OutputsOf(Part(filtered_data, S), combined_dict)
                     two == OutputsOf(Part(filtered_data, (DOMAIN filtered_data) \ S),
                                      combined_dict)
                 IN /\ DOMAIN one[1].aggregated_tokens \cap DOMAIN two[1].aggregated_tokens = {}
                    /\ DOMAIN one[2].aggregated_tokens \cap DOMAIN two[2].aggregated_tokens = {}
                    /\ whole = <<OutputUnion(one[1], two[1]), OutputUnion(one[2], two[2])>>
\* a finished run of MaxOrderTokens tokens with a token in each bucket,
\* the first and the last with equal lowercase forms
C15_Witness ==
    /\ cpc = "done"
    /\ novel_neologisms_output # Unwritten
    /\ novel_neologisms_output.total_tokens = 1
    /\ neo_combinations_output.total_tokens = 1
    /\ Len(filtered_data) = MaxOrderTokens
    /\ Lower(TokenAt(1)) = Lower(TokenAt(3))


\* what the worker of genre g leaves in its directory when it runs alone
Alone(g) == OutputsOf(w_data[g], combined_dict)

\* C16: parallel genre classification (SpecParallel): in every interleaving
\* of the two workers the reference set and each worker's copy of it stay
\* what load_dictionaries returned, a worker's buckets are those of a run
\* alone over the tokens it has handled, the files of a genre are unwritten
\* until its own worker writes them, and what a worker has written is what
\* it writes when it runs alone.
C16_ParallelSafe ==
    /\ combined_dict = load_dictionaries(chamber_entries, corpus_dict)
    /\ \A g \in Genres :
          /\ w_dict[g] = combined_dict
          /\ LET r == Classified(NoBuckets, SubSeq(w_data[g], 1, w_idx[g] - 1),
                                 combined_dict)
             IN w_neo[g] = r.neo /\ w_novel[g] = r.novel
          /\ files[OutputDir(g)].neo_combinations =
                IF w_pc[g] = "loop" THEN Unwritten ELSE Alone(g)[1]
          /\ files[OutputDir(g)].novel_neologisms =
                IF w_pc[g] = "done" THEN Alone(g)[2] ELSE Unwritten
\* romance has written its first file and scifi both of its own, with
\* different contents
C16_Witness ==
    /\ w_pc["romance"] = "dumping"
    /\ w_pc["scifi"] = "done"
    /\ files[OutputDir("romance")].neo_combinations.total_tokens = 1
    /\ files[OutputDir("scifi")].neo_combinations.total_tokens = 0
    /\ files[OutputDir("scifi")].novel_neologisms.total_tokens = 1


\* C18: the inside-brackets skip (SpecExtractor).  In every pass over a
\* line that has a headword match and holds neither "(" nor "[", if the
\* stack is not empty once the line's closers have popped and the frames
\* have aged, the line is reported as inside brackets, nothing is appended
\* and the previous accepted entry stays what it was.
C18_InsideBracketsSkip ==
    [][(Len(lines') = Len(lines) + 1 /\ Len(printed') = Len(printed) + 1)
        => LET line == lines'[Len(lines')]
               rec == printed'[Len(printed')]
           IN (rec.entry # None /\ BracketIndex(line) = -1 /\ bracket_stack' # <<>>)
              => /\ rec.said = "inside_brackets"
                 /\ entries' = entries
                 /\ previous_entry' = previous_entry]_vars
\* a headword line without brackets was skipped inside a bracket that an
\* accepted line had opened
C18_Witness ==
    \E k \in DOMAIN printed :
        /\ k > 1
        /\ printed[k - 1].said = "added"
        /\ printed[k].said = "inside_brackets"
        /\ printed[k].entry # None
        /\ BracketIndex(lines[k]) = -1
        /\ entries = <<printed[k - 1].entry>>

\* C19: the hyphenation branch is unreachable (SpecHyphen: lines ending
\* with a fragment and a hyphen, with and without a headword).  After every
\* line the incomplete-word buffer is empty; no line taken matches both the
\* headword pattern and the hyphen pattern; no pass reports the start of a
\* hyphenated word; and every entry of the list is the leading run of
\* headword characters of the line that added it.
C19_NoFragmentStored ==
    /\ incomplete_word = <<>>
    /\ \A k \in DOMAIN lines :
          ~(entry_pattern(lines[k]) # None /\ combine_hyphen(lines[k]) # None)
    /\ \A k \in DOMAIN printed : printed[k].said # "hyphen_start"
    /\ \A j \in DOMAIN entries :
          \E k \in DOMAIN printed :
              /\ printed[k].said = "added"
              /\ Cardinality({m \in 1..k : printed[m].said = "added"}) = j
              /\ entries[j] = LeadRun(lines[k])
\* an entry was added from a headword line that itself ends with a
\* hyphenated fragment, after a line that matches the hyphen pattern
C19_Witness ==
    /\ Len(lines) = MaxHyphenLines
    /\ lines[1] = EEti
    /\ lines[2] = AbDeHyphen /\ printed[2].said = "added"
    /\ lines[3] = MologyEntry
    /\ entries = << <<"a", "b">> >>

\* the frames the lines taken so far have left: one for each line with an
\* opening bracket among the last MaxAge lines, oldest first, whose age is
\* the number of lines taken since, that line included
RECURSIVE FramesSince(_)
FramesSince(k) ==
    IF k > Len(lines) THEN <<>>
    ELSE (IF BracketIndex(lines[k]) # -1 /\ Len(lines) - k + 1 <= MaxAge
          THEN << <<lines[k][BracketIndex(lines[k]) + 1], Len(lines) - k + 1>> >>
          ELSE <<>>) \o FramesSince(k + 1)

\* C20 as stated: after any line every frame left on the stack has an age
\* below 10.
C20_AsStated ==
    \A k \in DOMAIN bracket_stack : bracket_stack[k][2] < MaxAge

\* C20: the ageing bound (SpecAge: lines with one opening bracket and lines
\* with none, no closer and no empty line).  A frame is pushed with age 0 and
\* aged in the same pass, so after the line that opened it its age is 1;
\* its age grows by one with every further line; it is still on the stack
\* with age 10 after the ninth further line and is dropped by the pass
\* after that.  After any line every frame has an age from 1 to 10.
C20_AgeingBound ==
    /\ \A k \in DOMAIN bracket_stack :
          bracket_stack[k][2] >= 1 /\ bracket_stack[k][2] <= MaxAge
    /\ bracket_stack = FramesSince(1)
\* a frame of age 10 is on the stack, and the frame of the first line has
\* been dropped
C20_Witness ==
    /\ Len(lines) = MaxAge + 1
    /\ lines[1] = AbOpen
    /\ lines[2] = AbOpen
    /\ bracket_stack # <<>>
    /\ bracket_stack[1] = <<"(", MaxAge>>
    /\ \A k \in 3..Len(lines) : lines[k] = MologyEntry

\* C21: the previous-line-was-entry flag is set when a line starts being
\* processed only if the line right before it was accepted; hence a headword
\* line is skipped for the repeat only when the line right before it was
\* accepted, also after a line skipped as inside brackets.
C21_FlagFollowsAccepted ==
    /\ previous_line_is_entry =>
          (printed # <<>> /\ printed[Len(printed)].said = "added")
    /\ \A k \in DOMAIN printed :
          (k > 1 /\ printed[k - 1].said = "inside_brackets"
                 /\ printed[k].said = "skipped")
          => printed[k].why # "repeat"

\* a line with a headword match that holds "(" or "[": the headword has no
\* bracket in it, so the bracket comes after the headword
HeadwordThenBracket(line) ==
    entry_pattern(line) # None /\ \E p \in DOMAIN line : line[p] \in {"(", "["}

\* C23: Branch A (SpecBranch).  A pass over a headword line with an opening
\* bracket after the headword never reports "inside brackets" or "no
\* match", whatever frames are on the stack; the line's brackets are pushed
\* and popped and all frames aged as for any line; the line is skipped when
\* the flag is set (repeat) or the letter jumps, and is appended otherwise.
C23_BranchAIsEntry ==
    [][(Len(lines') = Len(lines) + 1 /\ Len(printed') = Len(printed) + 1
        /\ HeadwordThenBracket(lines'[Len(lines')]))
        => LET line == lines'[Len(lines')]
               rec == printed'[Len(printed')]
               jump == should_skip_entry(rec.entry, previous_entry, first_letters)[1]
           IN /\ rec.said \in {"added", "skipped"}
              /\ bracket_stack' = check_brackets_and_close(
                                      update_bracket_stack(line, bracket_stack), FALSE)
              /\ previous_line_is_entry
                    => (rec.said = "skipped" /\ rec.why = "repeat" /\ entries' = entries)
              /\ (~previous_line_is_entry /\ jump)
                    => (rec.said = "skipped" /\ rec.why = "jump" /\ entries' = entries)
              /\ (~previous_line_is_entry /\ ~jump)
                    => (rec.said = "added" /\ entries' = Append(entries, rec.entry))]_vars
\* a Branch A line was accepted while two frames of an earlier line were
\* on the stack, the next was skipped as a repeat, the next for its letter,
\* and the brackets of all of them are on the stack
C23_Witness ==
    /\ lines = <<OnlyOpen, AbOpen, AbParen, ZaOpen>>
    /\ printed[2].said = "added"
    /\ printed[3].said = "skipped" /\ printed[3].why = "repeat"
    /\ printed[4].said = "skipped" /\ printed[4].why = "jump"
    /\ entries = << <<"a", "b">> >>
    /\ bracket_stack = << <<"(", 4>>, <<"[", 4>>, <<"(", 3>>, <<"[", 1>> >>

\* the line holds "(" or "["
HasOpener(line) == \E p \in DOMAIN line : line[p] \in {"(", "["}
\* a headword line that holds no bracket of any kind
BracketFreeHeadword(line) ==
    entry_pattern(line) # None /\ \A p \in DOMAIN line : line[p] \notin {"(", "[", ")", "]"}
\* no line from line a to line b holds an opening bracket
NoOpenerIn(a, b) == \A j \in a..b : j \in DOMAIN lines => ~HasOpener(lines[j])

C25_EmptyLineCloses ==
    Len(printed) = Len(lines) =>
      /\ (lines # <<>> /\ lines[Len(lines)] = <<>>)
            => (bracket_stack = <<>> /\ ~previous_line_is_entry)
      /\ \A k \in DOMAIN lines :
            (k > 1 /\ lines[k - 1] = <<>> /\ BracketFreeHeadword(lines[k]))
            => /\ printed[k].said # "inside_brackets"
               /\ ~(printed[k].said = "skipped" /\ printed[k].why = "repeat")
\* three frames of two ages were open and the line before was accepted
\* when the empty line came; the headword line after it was accepted
C25_Witness ==
    /\ lines = <<OnlyOpen, AbOpen, EmptyLine, AbX>>
    /\ printed[2].said = "added"
    /\ printed[3].said = "no_match"
    /\ printed[4].said = "added"
    /\ entries = << <<"a", "b">>, <<"a", "b">> >>
    /\ bracket_stack = <<>>

\* the leading run of headword characters of the line is empty or is not
\* followed by a comma and two spaces
NoHeadword(line) ==
    LeadRun(line) = <<>> \/ ~LookingAt(line, Len(LeadRun(line)) + 1, EntryLookahead)

\* C26: Branch B contributes nothing (SpecExtractor).  A pass over a line
\* without headword match reports "no match", leaves the entry list, the
\* previous accepted entry, the first letters seen and the incomplete-word
\* buffer as they were, sets the flag to false, and gives the stack the
\* line's pushes and pops and one ageing (emptying it on an empty line).
C26_BranchBFrame ==
    [][(Len(lines') = Len(lines) + 1 /\ NoHeadword(lines'[Len(lines')]))
        => LET line == lines'[Len(lines')]
           IN /\ Len(printed') = Len(printed) + 1
              /\ printed'[Len(printed')].said = "no_match"
              /\ entries' = entries
              /\ previous_entry' = previous_entry
              /\ first_letters' = first_letters
              /\ incomplete_word' = incomplete_word
              /\ ~previous_line_is_entry'
              /\ bracket_stack' = check_brackets_and_close(
                                      update_bracket_stack(line, bracket_stack),
                                      line = <<>>)]_vars
\* after an accepted line that opened a bracket, a line without headword
\* closed the bracket and left the entry list and the letters alone
C26_Witness ==
    /\ lines = <<AbOpen, QuuxEnd>>
    /\ printed[1].said = "added"
    /\ printed[2].said = "no_match"
    /\ entries = << <<"a", "b">> >>
    /\ previous_entry = <<"a", "b">>
    /\ ~previous_line_is_entry
    /\ bracket_stack = <<>>

\* the kinds of the frames, bottom first
Kinds(stack) == [k \in DOMAIN stack |-> stack[k][1]]
\* the ages of the frames, bottom first
Ages(stack) == [k \in DOMAIN stack |-> stack[k][2]]

\* C27: the shape of the bracket stack (SpecStack: lines of one bracket
\* each, of both kinds).  After every line the ages do not increase from
\* the bottom of the stack to the top.  A line that is one closing bracket,
\* of either kind, taken with frames on the stack, removes the top frame
\* whatever its kind and ages the others by one; taken with an empty stack
\* it leaves the stack empty.
C27_StackShape ==
    [][Len(lines') = Len(lines) + 1
        => LET line == lines'[Len(lines')]
           IN /\ \A i, j \in DOMAIN bracket_stack' :
                    i < j => bracket_stack'[i][2] >= bracket_stack'[j][2]
              /\ (line \in {CloseRound, CloseSquare} /\ bracket_stack = <<>>)
                    => bracket_stack' = <<>>
              /\ (line \in {CloseRound, CloseSquare} /\ bracket_stack # <<>>
                    /\ \A k \in DOMAIN bracket_stack : bracket_stack[k][2] < MaxAge)
                    => /\ Len(bracket_stack') = Len(bracket_stack) - 1
                       /\ \A k \in DOMAIN bracket_stack' :
                             /\ Kinds(bracket_stack')[k] = Kinds(bracket_stack)[k]
                             /\ Ages(bracket_stack')[k] = Ages(bracket_stack)[k] + 1]_vars
\* a closer came on the empty stack, then a square and a round bracket
\* were opened, and a square closer popped the round frame
C27_Witness ==
    /\ lines = <<CloseRound, OpenSquare, OpenRound, CloseSquare>>
    /\ bracket_stack = << <<"[", 3>> >>
    /\ entries = <<>>

---------------------------------------------------------------------------
(* Properties of chunk_text (SpecChunk)                                    *)

\* C17: every chunk chunk_text returns is no longer than chunk_size, also
\* when a single paragraph is longer than chunk_size.
C17_ChunksWithinSize ==
    kpc = "done" => \A k \in DOMAIN chunks : Len(chunks[k]) <= chunk_size


---------------------------------------------------------------------------
(* Properties of the corpus builder (SpecCorpus)                           *)

\* C22: every record id in the processed_records of a saved checkpoint has
\* had its token counts merged into the master_counter saved with it, in
\* every interleaving of the tasks of a batch; and when a run, resumed or
\* not, has ended, every processed record has its counts in master_counter.
C22_CheckpointConsistent ==
    /\ checkpoint_file.exists =>
          \A id \in checkpoint_file.processed_records : checkpoint_file.merges[id] >= 1
    /\ mpc = "done" => \A id \in processed_records : merges[id] >= 1


\* C28: a task that is retrieving or tokenizing works on a record id that
\* is not in processed_records, and over a run and its resumes the counts of
\* each record id go into master_counter at most once.
C28_AtMostOnce ==
    /\ \A k \in DOMAIN tasks :
          tasks[k].at \in {"retrieving", "tokenizing"}
          => RecordId(tasks[k].record) \notin processed_records
    /\ \A id \in RecordIds : merges[id] <= 1


---------------------------------------------------------------------------
(* Properties of the review tool (SpecValidator)                           *)

\* C29: after any sequence of decisions, skips, steps back and dictionary
\* selections no word is both in validated_true and in validated_false,
\* and no word is written both to a true and to a false result file.
C29_DecisionsExclusive ==
    /\ (DOMAIN validated_true) \cap (DOMAIN validated_false) = {}
    /\ result_files # NoResults =>
          (result_files.romance_true \cup result_files.scifi_true)
              \cap (result_files.romance_false \cup result_files.scifi_false) = {}


\* the index names a word of the dictionary loaded
IndexInRange ==
    current_keys # <<>> => (0 <= current_index /\ current_index < Len(current_keys))

\* C30: with a non-empty dictionary loaded, 0 <= current_index <
\* len(current_keys) when the tool has started and after every event; a
\* decision or Skip on the last word leaves the index on the last word,
\* and Previous on the first word leaves it at 0.
C30_IndexInRange ==
    /\ []IndexInRange
    /\ [][/\ ((Skip \/ \E is_neologism \in BOOLEAN : MakeDecision(is_neologism))
               /\ current_keys # <<>> /\ current_index = Len(current_keys) - 1)
              => (current_index' = current_index /\ current_keys' = current_keys)
          /\ (PreviousWord /\ current_keys # <<>> /\ current_index = 0)
              => (current_index' = 0 /\ current_keys' = current_keys)]_vars
\* a decision was made on the last word of a dictionary of two words and
\* the index stayed on it
C30_Witness ==
    /\ current_keys = <<"w2", "w1">>
    /\ current_index = 1
    /\ shown = "end_of_dictionary"
    /\ "w1" \in DOMAIN validated_true
    /\ "w2" \in DOMAIN validated_false

===========================================================================
